---- MODULE Spec2Model ----
(***************************************************************************)
(* A model of rust-backend-showcase-jsonplaceholder: the user service      *)
(* (src/src/user_service.rs) over a MongoDB collection "users" and the     *)
(* JsonPlaceholder directory client (src/src/user_client.rs).              *)
(*                                                                         *)
(* Every service function is one action.  What the outside world decides   *)
(* (whether a connection can be set up, whether a driver call or an HTTP   *)
(* request fails) is an input of the action, drawn with \E.  The functions *)
(* of the source are operators that return the result together with the   *)
(* driver calls / HTTP requests they issued and the collection they leave. *)
(***************************************************************************)
EXTENDS Integers, Sequences, FiniteSets, TLC

VARIABLES
    db,         \* the documents of the MongoDB collection "users", in insertion order
    jph,        \* the records JsonPlaceholder serves, as JSON on the wire; never written
    mapOrder,   \* iteration order of serde_json's Map in this build ("sorted" | "declared")
    op,         \* the function that ran last
    arg,        \* its argument
    res,        \* what it returned
    dbCalls,    \* the MongoDB driver calls it issued, in order
    jphCalls,   \* the HTTP requests it sent to JsonPlaceholder, in order
    dbResult,   \* what its read of the collection gave it (NotCalled: it made none)
    jphResult,  \* what its call of the directory client gave it (NotCalled: none)
    updateDoc,  \* Some(the update document it handed to update_one), or None
    response,   \* Some(the HTTP response a handler of user_controller.rs gave), or None
    tasks       \* the calls that are under way concurrently, each with its locals

vars ==
    <<db, jph, mapOrder, op, arg, res, dbCalls, jphCalls, dbResult, jphResult, updateDoc,
      response, tasks>>

----------------------------------------------------------------------------
(* Bounds *)

\* The most documents the collection holds in the model.
MaxDocs == 2

\* The most calls that are under way at the same time.
MaxTasks == 2

----------------------------------------------------------------------------
(* Option, Result, errors *)

\* Option<T>: None is the empty sequence, Some(x) a sequence of one.
None == <<>>
Some(x) == <<x>>

Ok(v) == [tag |-> "Ok", val |-> v]
Err(e) == [tag |-> "Err", err |-> e]
\* A Rust panic (an unwrap of None): the call returns nothing to its caller.
Panic == [tag |-> "Panic"]

\* No call was made, so there is no result.
NotCalled == [tag |-> "NotCalled"]

IsOk(r) == r.tag = "Ok"
IsErr(r) == r.tag = "Err"

\* enum DatabaseError
DbUserNotFound(id) == [kind |-> "UserNotFound", id |-> id]
MongoConnectionFailed == [kind |-> "MongoConnectionFailed"]
OperationFailed == [kind |-> "OperationFailed"]

\* enum UserClientError
ClientUserNotFound(id) == [kind |-> "UserNotFound", id |-> id]
RestError(status) == [kind |-> "RestError", status |-> status]
UrlParseError == [kind |-> "UrlParseError"]
SerdeError == [kind |-> "SerdeError"]
NoIdError == [kind |-> "NoIdError"]

\* reqwest::StatusCode
OK == 200
BAD_REQUEST == 400
NOT_FOUND == 404
INTERNAL_SERVER_ERROR == 500

----------------------------------------------------------------------------
(* struct User *)

\* The fields of User in declaration order (serde's serialisation order).
Fields == <<"id", "name", "username", "email", "address", "phone", "website", "company">>

\* The same fields in the order of a sorted map.
SortedFields == <<"address", "company", "email", "id", "name", "phone", "username", "website">>

Names == {"TESTER", "NEW NAME"}
Emails == {"testlover@testing.gov"}
Addresses ==
    { [street |-> "Totallyrealstreet 6", suite |-> "a 12", city |-> "Testington",
       geo |-> [lat |-> "12", lon |-> "15"]],
      [street |-> "Totallyrealstreet 6", suite |-> "a 12", city |-> "Testington",
       geo |-> [lat |-> "13", lon |-> "15"]] }

\* A User; the fields the model does not vary have the values of _create_test_user.
MkUser(id, name, email, address) ==
    [id |-> id, name |-> name, username |-> "TESTER_69", email |-> email,
     address |-> address, phone |-> "123456789", website |-> "testing.gov",
     company |-> [name |-> "Testing", catchPhrase |-> "Truly we are testing", bs |-> "To test"]]

\* User::_create_test_user(None)
_create_test_user ==
    MkUser(None, "TESTER", "testlover@testing.gov",
           [street |-> "Totallyrealstreet 6", suite |-> "a 12", city |-> "Testington",
            geo |-> [lat |-> "12", lon |-> "15"]])

\* The records a request body can carry, without identifier.
NewUsers == {MkUser(None, n, e, a) : n \in Names, e \in Emails, a \in Addresses}

Digits == <<"0", "1", "2", "3", "4", "5", "6", "7", "8", "9">>

\* i32::to_string / serde_json::Number::to_string of an integer.
RECURSIVE to_string(_)
to_string(n) ==
    IF n < 0 THEN "-" \o to_string(0 - n)
    ELSE IF n < 10 THEN Digits[n + 1]
    ELSE to_string(n \div 10) \o Digits[(n % 10) + 1]

WithId(user, id) == [user EXCEPT !.id = id]

----------------------------------------------------------------------------
(* JSON values of the "id" field, and user.rs: deserialize_id *)

JNull == [t |-> "null", n |-> 0, s |-> ""]
JNumber(n) == [t |-> "number", n |-> n, s |-> ""]
JString(s) == [t |-> "string", n |-> 0, s |-> s]
JBool == [t |-> "bool", n |-> 0, s |-> ""]
JArray == [t |-> "array", n |-> 0, s |-> ""]
JObject == [t |-> "object", n |-> 0, s |-> ""]

\* deserialize_id reading every value that is neither a number nor a string as an
\* absent identifier.
deserialize_id_lenient(value) ==
    CASE value.t = "number" -> Ok(Some(to_string(value.n)))
      [] value.t = "string" -> Ok(Some(value.s))
      [] OTHER -> Ok(None)

deserialize_id(value) ==
    CASE value.t = "number" -> Ok(Some(to_string(value.n)))
      [] value.t = "string" -> Ok(Some(value.s))
      [] value.t = "null" -> Ok(None)
      [] OTHER -> Err("Invalid type")

\* #[derive(Serialize)] on Option<String>: None is null, Some(s) the string s.
serialize_id(id) == IF id = None THEN JNull ELSE JString(id[1])

\* #[derive(Deserialize)] for User: the id goes through deserialize_id, the other
\* fields decode to themselves.
deserialize_user(json) ==
    IF IsErr(deserialize_id(json.id)) THEN Err(SerdeError)
    ELSE Ok([json EXCEPT !.id = deserialize_id(json.id).val])

RECURSIVE deserialize_users(_)
deserialize_users(jsons) ==
    IF jsons = <<>> THEN Ok(<<>>)
    ELSE IF IsErr(deserialize_user(Head(jsons))) THEN Err(SerdeError)
    ELSE IF IsErr(deserialize_users(Tail(jsons))) THEN Err(SerdeError)
    ELSE Ok(<<deserialize_user(Head(jsons)).val>> \o deserialize_users(Tail(jsons)).val)

----------------------------------------------------------------------------
(* JsonPlaceholder, the directory: what it answers to the client's requests *)

\* A record of the directory; its name is one no request body of the model carries.
JphUser(id) ==
    MkUser(id, "Leanne Graham", "testlover@testing.gov",
           CHOOSE a \in Addresses : a.geo.lat = "12")

\* The contents the directory may have.
JphContents ==
    { <<JphUser(JNumber(101)), JphUser(JNumber(7)), JphUser(JString("102"))>>,
      <<JphUser(JNumber(7)), JphUser(JNull)>>,
      <<JphUser(JBool)>> }

\* An HTTP exchange: no response at all (the send failed), or a status and a body.
SendError == [sent |-> FALSE]
Response(status, body) == [sent |-> TRUE, status |-> status, body |-> body]
NotJson == [json |-> FALSE]
Json(value) == [json |-> TRUE, value |-> value]

\* The record served under /users/{id}: the first whose id reads as id.
JphMatching(users, id) ==
    {i \in 1..Len(users) :
        /\ IsOk(deserialize_id(users[i].id))
        /\ deserialize_id(users[i].id).val = Some(id)}

\* What a healthy directory answers to GET /users and to GET /users/{id}.
JphGetUsers(users) == Response(OK, Json(users))
JphGetUser(users, id) ==
    IF JphMatching(users, id) = {} THEN Response(NOT_FOUND, NotJson)
    ELSE Response(OK, Json(users[CHOOSE i \in JphMatching(users, id) :
                                    \A j \in JphMatching(users, id) : i <= j]))

\* What the client may get back where a healthy directory would answer `healthy`.
Replies(healthy) ==
    { healthy, SendError, Response(BAD_REQUEST, NotJson),
      Response(OK, NotJson) }

\* The exchanges of one client call: the base url does not parse and nothing is
\* sent, or it parses and one of the replies comes back.
Exchanges(healthy) ==
    {[urlOk |-> TRUE, reply |-> r] : r \in Replies(healthy)}
        \union {[urlOk |-> FALSE, reply |-> SendError]}

----------------------------------------------------------------------------
(* user_client.rs.  urlOk: the configured base url parses.  Each function  *)
(* returns res and calls (the requests sent).                              *)

get_users_with_url(urlOk, reply) ==
    IF ~urlOk THEN [res |-> Err(UrlParseError), calls |-> <<>>]
    ELSE IF ~reply.sent
    THEN [res |-> Err(RestError(INTERNAL_SERVER_ERROR)), calls |-> <<"GET /users">>]
    ELSE IF reply.status # OK
    THEN [res |-> Err(RestError(reply.status)), calls |-> <<"GET /users">>]
    ELSE IF ~reply.body.json
    THEN [res |-> Err(SerdeError), calls |-> <<"GET /users">>]
    ELSE [res |-> deserialize_users(reply.body.value), calls |-> <<"GET /users">>]

\* get_user_with_url without the arm for NOT_FOUND, as get_users_with_url has it.
get_user_with_url_without_404(id, urlOk, reply) ==
    IF ~urlOk THEN [res |-> Err(UrlParseError), calls |-> <<>>]
    ELSE IF ~reply.sent
    THEN [res |-> Err(RestError(INTERNAL_SERVER_ERROR)), calls |-> <<"GET /users/{id}">>]
    ELSE IF reply.status # OK
    THEN [res |-> Err(RestError(reply.status)), calls |-> <<"GET /users/{id}">>]
    ELSE IF ~reply.body.json
    THEN [res |-> Err(SerdeError), calls |-> <<"GET /users/{id}">>]
    ELSE [res |-> deserialize_user(reply.body.value), calls |-> <<"GET /users/{id}">>]

get_user_with_url(id, urlOk, reply) ==
    IF ~urlOk THEN [res |-> Err(UrlParseError), calls |-> <<>>]
    ELSE IF ~reply.sent
    THEN [res |-> Err(RestError(INTERNAL_SERVER_ERROR)), calls |-> <<"GET /users/{id}">>]
    ELSE IF reply.status = NOT_FOUND
    THEN [res |-> Err(ClientUserNotFound(id)), calls |-> <<"GET /users/{id}">>]
    ELSE IF reply.status # OK
    THEN [res |-> Err(RestError(reply.status)), calls |-> <<"GET /users/{id}">>]
    ELSE IF ~reply.body.json
    THEN [res |-> Err(SerdeError), calls |-> <<"GET /users/{id}">>]
    ELSE [res |-> deserialize_user(reply.body.value), calls |-> <<"GET /users/{id}">>]

\* update_existing_user: the client's PATCH of a user; user_service.rs never calls it.
update_existing_user(user, urlOk, reply) ==
    IF user.id = None THEN [res |-> Err(NoIdError), calls |-> <<>>]
    ELSE IF ~urlOk THEN [res |-> Err(UrlParseError), calls |-> <<>>]
    ELSE IF ~reply.sent
    THEN [res |-> Err(RestError(INTERNAL_SERVER_ERROR)), calls |-> <<"PATCH /users">>]
    ELSE IF reply.status = NOT_FOUND
    THEN [res |-> Err(ClientUserNotFound(user.id[1])), calls |-> <<"PATCH /users">>]
    ELSE IF reply.status # OK
    THEN [res |-> Err(RestError(reply.status)), calls |-> <<"PATCH /users">>]
    ELSE IF ~reply.body.json
    THEN [res |-> Err(SerdeError), calls |-> <<"PATCH /users">>]
    ELSE [res |-> deserialize_user(reply.body.value), calls |-> <<"PATCH /users">>]

----------------------------------------------------------------------------
(* The MongoDB collection: the driver calls the service uses.  Documents   *)
(* are matched on their "id" field, on which the collection has no unique  *)
(* index; a query for one document answers the first match in insertion    *)
(* order.                                                                  *)

Matching(docs, id) == {i \in 1..Len(docs) : docs[i].id = Some(id)}

FirstMatch(docs, id) == CHOOSE i \in Matching(docs, id) : \A j \in Matching(docs, id) : i <= j

\* Collection::find_one(doc! {"id": id})
find_one(docs, id) ==
    IF Matching(docs, id) = {} THEN None ELSE Some(docs[FirstMatch(docs, id)])

\* Collection::count_documents(None)
count_documents(docs) == Len(docs)

\* Collection::insert_one(user)
insert_one(docs, user) == Append(docs, user)

\* Collection::delete_one(doc! {"id": id}): removes the first match, if any.
delete_one(docs, id) ==
    IF Matching(docs, id) = {} THEN docs
    ELSE [i \in 1..(Len(docs) - 1) |->
            IF i < FirstMatch(docs, id) THEN docs[i] ELSE docs[i + 1]]

----------------------------------------------------------------------------
(* user_service.rs: the functions over the collection.  Each returns       *)
(* res (the Result), calls (the driver calls issued) and, when it writes,  *)
(* docs (the collection afterwards).                                       *)

\* connOk: ClientOptions::parse and Client::with_options both succeed.
get_user_collection(connOk) ==
    IF connOk THEN Ok("users") ELSE Err(MongoConnectionFailed)

get_user_from_db_with_config(docs, id, connOk, findOk) ==
    IF IsErr(get_user_collection(connOk))
    THEN [res |-> Err(MongoConnectionFailed), calls |-> <<>>]
    ELSE IF ~findOk
    THEN [res |-> Err(DbUserNotFound(id)), calls |-> <<"find_one">>]
    ELSE IF find_one(docs, id) = None
    THEN [res |-> Err(DbUserNotFound(id)), calls |-> <<"find_one">>]
    ELSE [res |-> Ok(find_one(docs, id)[1]), calls |-> <<"find_one">>]

get_users_count_with_config(docs, connOk, countOk) ==
    IF IsErr(get_user_collection(connOk))
    THEN [res |-> Err(MongoConnectionFailed), calls |-> <<>>]
    ELSE IF ~countOk
    THEN [res |-> Err(MongoConnectionFailed), calls |-> <<"count_documents">>]
    ELSE [res |-> Ok(count_documents(docs)), calls |-> <<"count_documents">>]

\* NewId without the offset that keeps the store's identifiers apart from the
\* directory's.
NewIdWithoutOffset(count) == to_string(count + 1)

\* The identifier a new document gets from the count of documents:
\* (count as i32 + 101).to_string(); the counts of the model are far below 2^31.
NewId(count) == to_string(count + 101)

create_user_to_db_with_config(docs, user, connOk, countConnOk, countOk, insertOk) ==
    LET count == get_users_count_with_config(docs, countConnOk, countOk) IN
    IF IsErr(get_user_collection(connOk))
    THEN [res |-> Err(MongoConnectionFailed), calls |-> <<>>, docs |-> docs]
    ELSE IF IsErr(count.res)
    THEN [res |-> count.res, calls |-> count.calls, docs |-> docs]
    ELSE IF ~insertOk
    THEN [res |-> Err(OperationFailed), calls |-> count.calls \o <<"insert_one">>,
          docs |-> docs]
    ELSE [res |-> Ok(NewId(count.res.val)), calls |-> count.calls \o <<"insert_one">>,
          docs |-> insert_one(docs, WithId(user, Some(NewId(count.res.val))))]

get_all_users_from_db_with_config(docs, connOk, findOk, cursorOk) ==
    IF IsErr(get_user_collection(connOk))
    THEN [res |-> Err(MongoConnectionFailed), calls |-> <<>>]
    ELSE IF ~findOk \/ ~cursorOk
    THEN [res |-> Err(OperationFailed), calls |-> <<"find">>]
    ELSE [res |-> Ok(docs), calls |-> <<"find">>]

\* serde_json::to_value(user): the object of the user's fields.
to_value(user) == [user EXCEPT !.id = serialize_id(user.id)]

\* The keys of a serde_json Map in the order its iteration visits them.
MapKeys(order) == IF order = "sorted" THEN SortedFields ELSE Fields

\* bson Document::insert(key, value): a later insert under the same key replaces
\* the value of the earlier one.
DocInsert(document, key, value) ==
    [k \in DOMAIN document \union {key} |-> IF k = key THEN value ELSE document[k]]

\* The loop without its skip of the fields whose values match.
RECURSIVE UpdateLoopWithoutSkip(_, _, _, _, _)
UpdateLoopWithoutSkip(original_json, updated_json, keys, i, update_document) ==
    IF i > Len(keys) THEN update_document
    ELSE UpdateLoopWithoutSkip(original_json, updated_json, keys, i + 1,
                    DocInsert(update_document, "$set", keys[i] :> updated_json[keys[i]]))

\* The loop of generate_update_document over keys[i..], from update_document.
RECURSIVE UpdateLoop(_, _, _, _, _)
UpdateLoop(original_json, updated_json, keys, i, update_document) ==
    IF i > Len(keys) THEN update_document
    ELSE IF original_json[keys[i]] = updated_json[keys[i]]
    THEN UpdateLoop(original_json, updated_json, keys, i + 1, update_document)
    ELSE UpdateLoop(original_json, updated_json, keys, i + 1,
                    DocInsert(update_document, "$set", keys[i] :> updated_json[keys[i]]))

\* The update document that sets every field of the updated user, equal or not.
generate_update_document_of_all_fields(original_user, updated_user, order) ==
    "$set" :> to_value(updated_user)

generate_update_document(original_user, updated_user, order) ==
    UpdateLoop(to_value(original_user), to_value(updated_user), MapKeys(order), 1, <<>>)

\* The fields an update document sets, with their values.
SetOf(update) == IF "$set" \in DOMAIN update THEN update["$set"] ELSE <<>>

\* The stored document after {"$set": sets}.
ApplySet(document, sets) ==
    [f \in DOMAIN document |->
        IF f \notin DOMAIN sets THEN document[f]
        ELSE IF f = "id" THEN deserialize_id(sets[f]).val
        ELSE sets[f]]

\* Collection::update_one(doc! {"id": id}, update): changes the first match, if any.
update_one(docs, id, update) ==
    IF Matching(docs, id) = {} THEN docs
    ELSE [docs EXCEPT ![FirstMatch(docs, id)] = ApplySet(@, SetOf(update))]

\* update_user_in_db_with_config as an upsert: a user that is not found is inserted.
update_user_in_db_upsert(docs, user, order, connOk, findConnOk, findOk, updateOk) ==
    LET existing_user ==
            get_user_from_db_with_config(docs, user.id[1], findConnOk, findOk)
        update == generate_update_document(existing_user.res.val, user, order)
    IN  IF IsErr(get_user_collection(connOk))
        THEN [res |-> Err(MongoConnectionFailed), calls |-> <<>>, docs |-> docs,
              existing_user |-> NotCalled, update |-> None]
        ELSE IF user.id = None
        THEN [res |-> Panic, calls |-> <<>>, docs |-> docs,
              existing_user |-> NotCalled, update |-> None]
        ELSE IF IsErr(existing_user.res)
        THEN [res |-> IF existing_user.calls = <<>> THEN existing_user.res ELSE Ok(<<>>),
              calls |-> existing_user.calls \o <<"insert_one">>,
              docs |-> IF existing_user.calls = <<>> THEN docs ELSE insert_one(docs, user),
              existing_user |-> existing_user.res, update |-> None]
        ELSE IF ~updateOk
        THEN [res |-> Err(OperationFailed),
              calls |-> existing_user.calls \o <<"update_one">>, docs |-> docs,
              existing_user |-> existing_user.res, update |-> Some(update)]
        ELSE [res |-> Ok(<<>>), calls |-> existing_user.calls \o <<"update_one">>,
              docs |-> update_one(docs, user.id[1], update),
              existing_user |-> existing_user.res, update |-> Some(update)]

\* updateOk = FALSE: the write fails (for an empty update document too, which the
\* driver may refuse); an empty update document that is accepted changes nothing.
update_user_in_db_with_config(docs, user, order, connOk, findConnOk, findOk, updateOk) ==
    LET existing_user ==
            get_user_from_db_with_config(docs, user.id[1], findConnOk, findOk)
        update == generate_update_document(existing_user.res.val, user, order)
    IN  IF IsErr(get_user_collection(connOk))
        THEN [res |-> Err(MongoConnectionFailed), calls |-> <<>>, docs |-> docs,
              existing_user |-> NotCalled, update |-> None]
        ELSE IF user.id = None
        THEN [res |-> Panic, calls |-> <<>>, docs |-> docs,
              existing_user |-> NotCalled, update |-> None]
        ELSE IF IsErr(existing_user.res)
        THEN [res |-> existing_user.res, calls |-> existing_user.calls, docs |-> docs,
              existing_user |-> existing_user.res, update |-> None]
        ELSE IF ~updateOk
        THEN [res |-> Err(OperationFailed),
              calls |-> existing_user.calls \o <<"update_one">>, docs |-> docs,
              existing_user |-> existing_user.res, update |-> Some(update)]
        ELSE [res |-> Ok(<<>>), calls |-> existing_user.calls \o <<"update_one">>,
              docs |-> update_one(docs, user.id[1], update),
              existing_user |-> existing_user.res, update |-> Some(update)]

remove_user_from_db_with_config(docs, id, connOk, deleteOk) ==
    IF IsErr(get_user_collection(connOk))
    THEN [res |-> Err(MongoConnectionFailed), calls |-> <<>>, docs |-> docs]
    ELSE IF ~deleteOk
    THEN [res |-> Err(OperationFailed), calls |-> <<"delete_one">>, docs |-> docs]
    ELSE [res |-> Ok(<<>>), calls |-> <<"delete_one">>, docs |-> delete_one(docs, id)]

----------------------------------------------------------------------------
(* user_service.rs: the service functions.  jphCalls: the requests the      *)
(* function sends to the directory through user_client.                    *)

create_new_user(docs, user, connOk, countConnOk, countOk, insertOk) ==
    LET creation_result ==
            create_user_to_db_with_config(docs, user, connOk, countConnOk, countOk, insertOk)
    IN  IF IsErr(creation_result.res)
        THEN [res |-> Err(OperationFailed), calls |-> creation_result.calls,
              docs |-> creation_result.docs, jphCalls |-> <<>>]
        ELSE [res |-> Ok(WithId(user, Some(creation_result.res.val))),
              calls |-> creation_result.calls, docs |-> creation_result.docs,
              jphCalls |-> <<>>]

\* The ids of users, in order (user.id.clone().unwrap() of each).
RECURSIVE IdsOf(_)
IdsOf(users) ==
    IF users = <<>> THEN <<>> ELSE <<Head(users).id[1]>> \o IdsOf(Tail(users))

Contains(seq, x) == \E i \in 1..Len(seq) : seq[i] = x

\* The for_each without its test: every directory user is pushed.
PushAll(users, database_ids, jph_users) == users \o jph_users

\* The for_each of get_users: users, then each of jph_users whose id is not in
\* database_ids.
RECURSIVE PushMissing(_, _, _)
PushMissing(users, database_ids, jph_users) ==
    IF jph_users = <<>> THEN users
    ELSE IF ~Contains(database_ids, Head(jph_users).id[1])
    THEN PushMissing(Append(users, Head(jph_users)), database_ids, Tail(jph_users))
    ELSE PushMissing(users, database_ids, Tail(jph_users))

HasNoId(users) == \E i \in 1..Len(users) : users[i].id = None

\* get_users returns a Vec<User>, or panics on the unwrap of an absent id.
get_users(docs, connOk, findOk, cursorOk, urlOk, reply) ==
    LET database_result == get_all_users_from_db_with_config(docs, connOk, findOk, cursorOk)
        users == IF IsOk(database_result.res) THEN database_result.res.val ELSE <<>>
        client == get_users_with_url(urlOk, reply)
        jph_users == IF IsOk(client.res) THEN client.res.val ELSE <<>>
    IN  [res |-> IF HasNoId(users) \/ HasNoId(jph_users) THEN Panic
                 ELSE Ok(PushMissing(users, IdsOf(users), jph_users)),
         dbCalls |-> database_result.calls,
         jphCalls |-> IF HasNoId(users) THEN <<>> ELSE client.calls,
         database_result |-> database_result.res,
         jph_result |-> IF HasNoId(users) THEN NotCalled ELSE client.res]

\* get_user asking the directory first and the store only when it has no record.
get_user_directory_first(docs, id, connOk, findOk, urlOk, reply) ==
    LET database_result == get_user_from_db_with_config(docs, id, connOk, findOk)
        jph_result == get_user_with_url(id, urlOk, reply)
    IN  IF IsOk(jph_result.res)
        THEN [res |-> jph_result.res, dbCalls |-> <<>>, jphCalls |-> jph_result.calls,
              database_result |-> NotCalled, jph_result |-> jph_result.res]
        ELSE [res |-> IF IsOk(database_result.res) THEN database_result.res
                      ELSE IF jph_result.res.err.kind = "UserNotFound"
                      THEN Err(DbUserNotFound(id))
                      ELSE Err(OperationFailed),
              dbCalls |-> database_result.calls, jphCalls |-> jph_result.calls,
              database_result |-> database_result.res, jph_result |-> jph_result.res]

\* get_user reporting every failure of the directory as a user that is not found.
get_user_all_not_found(docs, id, connOk, findOk, urlOk, reply) ==
    LET database_result == get_user_from_db_with_config(docs, id, connOk, findOk)
        jph_result == get_user_with_url(id, urlOk, reply)
    IN  IF IsOk(database_result.res)
        THEN [res |-> database_result.res, dbCalls |-> database_result.calls,
              jphCalls |-> <<>>, database_result |-> database_result.res,
              jph_result |-> NotCalled]
        ELSE [res |-> IF IsOk(jph_result.res) THEN jph_result.res
                      ELSE Err(DbUserNotFound(id)),
              dbCalls |-> database_result.calls, jphCalls |-> jph_result.calls,
              database_result |-> database_result.res, jph_result |-> jph_result.res]

get_user(docs, id, connOk, findOk, urlOk, reply) ==
    LET database_result == get_user_from_db_with_config(docs, id, connOk, findOk)
        jph_result == get_user_with_url(id, urlOk, reply)
    IN  IF IsOk(database_result.res)
        THEN [res |-> database_result.res, dbCalls |-> database_result.calls,
              jphCalls |-> <<>>, database_result |-> database_result.res,
              jph_result |-> NotCalled]
        ELSE [res |-> IF IsOk(jph_result.res) THEN jph_result.res
                      ELSE IF jph_result.res.err.kind = "UserNotFound"
                      THEN Err(DbUserNotFound(id))
                      ELSE Err(OperationFailed),
              dbCalls |-> database_result.calls, jphCalls |-> jph_result.calls,
              database_result |-> database_result.res, jph_result |-> jph_result.res]

\* update_user that also sends the update of a stored user on to the directory.
update_user_writing_through(docs, user, order, connOk, findConnOk, findOk, updateOk) ==
    LET r == update_user_in_db_with_config(docs, user, order, connOk, findConnOk, findOk,
                                           updateOk)
    IN  [res |-> r.res, calls |-> r.calls, docs |-> r.docs,
         existing_user |-> r.existing_user, update |-> r.update,
         jphCalls |-> IF IsOk(r.res) THEN update_existing_user(user, TRUE, SendError).calls
                      ELSE <<>>]

update_user(docs, user, order, connOk, findConnOk, findOk, updateOk) ==
    LET r == update_user_in_db_with_config(docs, user, order, connOk, findConnOk, findOk,
                                           updateOk)
    IN  [res |-> r.res, calls |-> r.calls, docs |-> r.docs,
         existing_user |-> r.existing_user, update |-> r.update, jphCalls |-> <<>>]

----------------------------------------------------------------------------
(* user_controller.rs: the handlers.  A handler gets the request's headers *)
(* and the arguments actix-web extracts for it; it returns response (the   *)
(* HttpResponse, None when the handler panics), res (what the service      *)
(* function gave it, NotCalled when it called none) and what the service   *)
(* function did.                                                           *)

\* The value of a header: None when the request lacks the header.
HeaderValues == {None, Some("application/json"), Some("text/html")}

HttpResponse(status, body) == [status |-> status, body |-> body]

\* A body of plain text.
Text(string) == [json |-> FALSE, text |-> string]

\* serde_json's serialisation of a Vec<User>.
RECURSIVE to_values(_)
to_values(users) ==
    IF users = <<>> THEN <<>> ELSE <<to_value(Head(users))>> \o to_values(Tail(users))

\* What a handler leaves behind when it answers before it calls the service.
NoServiceCall(docs) ==
    [res |-> NotCalled, docs |-> docs, dbCalls |-> <<>>, jphCalls |-> <<>>,
     database_result |-> NotCalled, jph_result |-> NotCalled, update |-> None]

\* check_content_type_header_json and check_accept_header_json on the header's
\* value: Err(()) when the header is missing or is application/json.
check_content_type_header_json(content_type) ==
    IF content_type = None THEN Err(<<>>)
    ELSE IF content_type[1] = "application/json" THEN Err(<<>>)
    ELSE Ok(<<>>)

check_accept_header_json(accept) ==
    IF accept = None THEN Err(<<>>)
    ELSE IF accept[1] = "application/json" THEN Err(<<>>)
    ELSE Ok(<<>>)

hello == HttpResponse(OK, Text("Hello you!"))

get_all_users(req, docs, connOk, findOk, cursorOk, urlOk, reply) ==
    LET users == get_users(docs, connOk, findOk, cursorOk, urlOk, reply)
        service == [res |-> users.res, docs |-> docs, dbCalls |-> users.dbCalls,
                    jphCalls |-> users.jphCalls, database_result |-> users.database_result,
                    jph_result |-> users.jph_result, update |-> None]
    IN  IF IsErr(check_accept_header_json(req.accept))
        THEN [response |-> Some(HttpResponse(BAD_REQUEST, Text("Missing or incorrect headers."))),
              service |-> NoServiceCall(docs)]
        ELSE IF users.res = Panic
        THEN [response |-> None, service |-> service]
        ELSE [response |-> Some(HttpResponse(OK, Json(to_values(users.res.val)))),
              service |-> service]

\* get_user_with_id answering 500 to every error of the service.
get_user_with_id_all_500(req, id, docs, connOk, findOk, urlOk, reply) ==
    LET user == get_user(docs, id, connOk, findOk, urlOk, reply)
        service == [res |-> user.res, docs |-> docs, dbCalls |-> user.dbCalls,
                    jphCalls |-> user.jphCalls, database_result |-> user.database_result,
                    jph_result |-> user.jph_result, update |-> None]
    IN  IF IsErr(check_accept_header_json(req.accept))
        THEN [response |-> Some(HttpResponse(BAD_REQUEST, Text("Missing or incorrect headers"))),
              service |-> NoServiceCall(docs)]
        ELSE IF IsOk(user.res)
        THEN [response |-> Some(HttpResponse(OK, Json(to_value(user.res.val)))),
              service |-> service]
        ELSE [response |-> Some(HttpResponse(INTERNAL_SERVER_ERROR, Text(""))),
              service |-> service]

get_user_with_id(req, id, docs, connOk, findOk, urlOk, reply) ==
    LET user == get_user(docs, id, connOk, findOk, urlOk, reply)
        service == [res |-> user.res, docs |-> docs, dbCalls |-> user.dbCalls,
                    jphCalls |-> user.jphCalls, database_result |-> user.database_result,
                    jph_result |-> user.jph_result, update |-> None]
    IN  IF IsErr(check_accept_header_json(req.accept))
        THEN [response |-> Some(HttpResponse(BAD_REQUEST, Text("Missing or incorrect headers"))),
              service |-> NoServiceCall(docs)]
        ELSE IF IsOk(user.res)
        THEN [response |-> Some(HttpResponse(OK, Json(to_value(user.res.val)))),
              service |-> service]
        ELSE IF user.res.err.kind = "UserNotFound"
        THEN [response |-> Some(HttpResponse(NOT_FOUND, Text(""))), service |-> service]
        ELSE [response |-> Some(HttpResponse(INTERNAL_SERVER_ERROR, Text(""))),
              service |-> service]

\* user_controller::create_new_user
controller_create_new_user(req, user, docs, connOk, countConnOk, countOk, insertOk) ==
    LET created == create_new_user(docs, user, connOk, countConnOk, countOk, insertOk)
        service == [res |-> created.res, docs |-> created.docs, dbCalls |-> created.calls,
                    jphCalls |-> created.jphCalls, database_result |-> NotCalled,
                    jph_result |-> NotCalled, update |-> None]
    IN  IF IsErr(check_accept_header_json(req.accept))
        THEN [response |-> Some(HttpResponse(BAD_REQUEST, Text("Missing or incorrect headers"))),
              service |-> NoServiceCall(docs)]
        ELSE IF IsErr(check_content_type_header_json(req.content_type))
        THEN [response |-> Some(HttpResponse(BAD_REQUEST, Text("Missing or incorrect headers"))),
              service |-> NoServiceCall(docs)]
        ELSE IF user.id # None
        THEN [response |-> Some(HttpResponse(BAD_REQUEST,
                                             Text("New user should not have an id present."))),
              service |-> NoServiceCall(docs)]
        ELSE IF IsOk(created.res)
        THEN [response |-> Some(HttpResponse(OK, Json(to_value(created.res.val)))),
              service |-> service]
        ELSE [response |-> Some(HttpResponse(INTERNAL_SERVER_ERROR, Text(""))),
              service |-> service]

\* user_controller::update_user; the user it hands on carries the id of the path.
controller_update_user(req, user, id, docs, order, connOk, findConnOk, findOk, updateOk) ==
    LET updated == update_user(docs, WithId(user, Some(id)), order, connOk, findConnOk,
                               findOk, updateOk)
        service == [res |-> updated.res, docs |-> updated.docs, dbCalls |-> updated.calls,
                    jphCalls |-> updated.jphCalls, database_result |-> updated.existing_user,
                    jph_result |-> NotCalled, update |-> updated.update]
    IN  IF IsErr(check_accept_header_json(req.accept))
        THEN [response |-> Some(HttpResponse(BAD_REQUEST, Text("Missing or incorrect headers"))),
              service |-> NoServiceCall(docs)]
        ELSE IF IsErr(check_content_type_header_json(req.content_type))
        THEN [response |-> Some(HttpResponse(BAD_REQUEST, Text("Missing or incorrect headers"))),
              service |-> NoServiceCall(docs)]
        ELSE IF IsOk(updated.res)
        THEN [response |-> Some(HttpResponse(OK, Text(""))), service |-> service]
        ELSE IF updated.res.err.kind = "UserNotFound"
        THEN [response |-> Some(HttpResponse(NOT_FOUND, Text("User not found."))),
              service |-> service]
        ELSE [response |-> Some(HttpResponse(INTERNAL_SERVER_ERROR, Text(""))),
              service |-> service]

----------------------------------------------------------------------------
(* The state machine *)

\* The identifiers requests name: those the store assigns, one only the directory
\* holds and one that nobody holds.
Ids == {NewId(n) : n \in 0..(MaxDocs - 1)} \union {"7", "42"}

\* The records an update request can carry: with an identifier, or without one.
UpdatedUsers ==
    {WithId(u, Some(id)) : u \in NewUsers, id \in Ids \ {"42"}}
        \union {u \in NewUsers : u.name = "NEW NAME"}

\* The outcomes of n steps that run one after the other, each of which may fail:
\* step i succeeds iff run[i].  A step behind a failed one is never reached, so
\* one run per place of the first failure covers them all.
Runs(n) == {[i \in 1..n |-> i # k] : k \in 0..n}

Init ==
    /\ db = <<>>
    /\ jph \in JphContents
    /\ mapOrder \in {"sorted", "declared"}
    /\ op = "start"
    /\ arg = None
    /\ res = Ok(<<>>)
    /\ dbCalls = <<>>
    /\ jphCalls = <<>>
    /\ dbResult = NotCalled
    /\ jphResult = NotCalled
    /\ updateDoc = None
    /\ response = None
    /\ tasks = <<>>

CreateNewUser ==
    \E user \in NewUsers, run \in Runs(4) :
        LET r == create_new_user(db, user, run[1], run[2], run[3], run[4]) IN
        /\ Len(db) < MaxDocs
        /\ db' = r.docs
        /\ op' = "create_new_user"
        /\ arg' = user
        /\ res' = r.res
        /\ dbCalls' = r.calls
        /\ jphCalls' = r.jphCalls
        /\ dbResult' = NotCalled
        /\ jphResult' = NotCalled
        /\ updateDoc' = None
        /\ UNCHANGED <<jph, mapOrder, response, tasks>>

RemoveUserFromDb ==
    \E id \in Ids, run \in Runs(2) :
        LET r == remove_user_from_db_with_config(db, id, run[1], run[2]) IN
        /\ db' = r.docs
        /\ op' = "remove_user_from_db"
        /\ arg' = id
        /\ res' = r.res
        /\ dbCalls' = r.calls
        /\ jphCalls' = <<>>
        /\ dbResult' = NotCalled
        /\ jphResult' = NotCalled
        /\ updateDoc' = None
        /\ UNCHANGED <<jph, mapOrder, response, tasks>>

GetUsers ==
    \E run \in Runs(3), x \in Exchanges(JphGetUsers(jph)) :
        LET r == get_users(db, run[1], run[2], run[3], x.urlOk, x.reply) IN
        /\ op' = "get_users"
        /\ arg' = None
        /\ res' = r.res
        /\ dbCalls' = r.dbCalls
        /\ jphCalls' = r.jphCalls
        /\ dbResult' = r.database_result
        /\ jphResult' = r.jph_result
        /\ updateDoc' = None
        /\ UNCHANGED <<db, jph, mapOrder, response, tasks>>

GetUser ==
    \E id \in Ids, run \in Runs(2) :
        \E x \in Exchanges(JphGetUser(jph, id)) :
            LET r == get_user(db, id, run[1], run[2], x.urlOk, x.reply) IN
            /\ op' = "get_user"
            /\ arg' = id
            /\ res' = r.res
            /\ dbCalls' = r.dbCalls
            /\ jphCalls' = r.jphCalls
            /\ dbResult' = r.database_result
            /\ jphResult' = r.jph_result
            /\ updateDoc' = None
            /\ UNCHANGED <<db, jph, mapOrder, response, tasks>>

UpdateUser ==
    \E user \in UpdatedUsers, run \in Runs(4) :
        LET r == update_user(db, user, mapOrder, run[1], run[2], run[3], run[4]) IN
        /\ db' = r.docs
        /\ op' = "update_user"
        /\ arg' = user
        /\ res' = r.res
        /\ dbCalls' = r.calls
        /\ jphCalls' = r.jphCalls
        /\ dbResult' = r.existing_user
        /\ jphResult' = NotCalled
        /\ updateDoc' = r.update
        /\ UNCHANGED <<jph, mapOrder, response, tasks>>

Next ==
    \/ GetUsers
    \/ GetUser
    \/ CreateNewUser
    \/ UpdateUser
    \/ RemoveUserFromDb

Spec == Init /\ [][Next]_vars

----------------------------------------------------------------------------
(* The state machine of the handlers: every request is answered by the     *)
(* handler of user_controller.rs for its method and path.                  *)

\* The headers of the requests: Accept and Content-Type, each missing,
\* application/json or another type.
Requests ==
    {[accept |-> a, content_type |-> c] : a \in HeaderValues, c \in HeaderValues}

\* Requests without body carry no Content-Type.
GetRequests == {req \in Requests : req.content_type = None}

\* Requests with a body: Content-Type of the body's type, or as the Accept header.
BodyRequests ==
    {req \in Requests :
        req.content_type = Some("application/json") \/ req.content_type = req.accept}

\* The records a POST can carry: without identifier, or with one.
PostedUsers ==
    {u \in NewUsers : u.name = "TESTER"}
        \union {WithId(_create_test_user, Some("7"))}

\* The records a PATCH can carry; the handler takes the identifier from the path.
PatchedUsers == {u \in NewUsers : u.name = "NEW NAME"}

\* The identifiers a PATCH names: those the store assigns.
PatchedIds == {NewId(n) : n \in 0..(MaxDocs - 1)}

\* What the service function a handler called has done.
Served(r) ==
    /\ db' = r.service.docs
    /\ res' = r.service.res
    /\ dbCalls' = r.service.dbCalls
    /\ jphCalls' = r.service.jphCalls
    /\ dbResult' = r.service.database_result
    /\ jphResult' = r.service.jph_result
    /\ updateDoc' = r.service.update
    /\ response' = r.response
    /\ UNCHANGED <<jph, mapOrder, tasks>>

Hello ==
    /\ op' = "hello"
    /\ arg' = None
    /\ response' = Some(hello)
    /\ res' = NotCalled
    /\ dbCalls' = <<>>
    /\ jphCalls' = <<>>
    /\ dbResult' = NotCalled
    /\ jphResult' = NotCalled
    /\ updateDoc' = None
    /\ UNCHANGED <<db, jph, mapOrder, tasks>>

GetAllUsers ==
    \E req \in GetRequests, run \in Runs(3), x \in Exchanges(JphGetUsers(jph)) :
        LET r == get_all_users(req, db, run[1], run[2], run[3], x.urlOk, x.reply) IN
        /\ op' = "get_all_users"
        /\ arg' = [req |-> req]
        /\ Served(r)

GetUserWithId ==
    \E req \in GetRequests, id \in Ids, run \in Runs(2) :
        \E x \in Exchanges(JphGetUser(jph, id)) :
            LET r == get_user_with_id(req, id, db, run[1], run[2], x.urlOk, x.reply) IN
            /\ op' = "get_user_with_id"
            /\ arg' = [req |-> req, id |-> id]
            /\ Served(r)

ControllerCreateNewUser ==
    \E req \in BodyRequests, user \in PostedUsers, run \in Runs(4) :
        LET r == controller_create_new_user(req, user, db, run[1], run[2], run[3], run[4]) IN
        /\ Len(db) < MaxDocs
        /\ op' = "controller_create_new_user"
        /\ arg' = [req |-> req, user |-> user]
        /\ Served(r)

ControllerUpdateUser ==
    \E req \in BodyRequests, user \in PatchedUsers, id \in PatchedIds, run \in Runs(4) :
        LET r == controller_update_user(req, user, id, db, mapOrder,
                                        run[1], run[2], run[3], run[4]) IN
        /\ op' = "controller_update_user"
        /\ arg' = [req |-> req, user |-> user, id |-> id]
        /\ Served(r)

ApiNext ==
    \/ Hello
    \/ GetAllUsers
    \/ GetUserWithId
    \/ ControllerCreateNewUser
    \/ ControllerUpdateUser

ApiSpec == Init /\ [][ApiNext]_vars

----------------------------------------------------------------------------
(* main.rs: the server.  App::new() registers handlers with service() and  *)
(* no application data; a request goes to the registered handler whose     *)
(* method and path match it, and to the default service of actix-web,      *)
(* which answers 404, when there is none.                                  *)

\* The handlers main.rs registers.
Services == {"hello", "get_all_users", "get_user_with_id", "controller_create_new_user"}

\* The types of the application data main.rs registers (it calls no app_data).
AppData == {}

\* The method and path in the routing macro of each handler of user_controller.rs.
HandlerRoutes ==
    { [handler |-> "hello", method |-> "GET", path |-> "/"],
      [handler |-> "get_all_users", method |-> "GET", path |-> "/users"],
      [handler |-> "get_user_with_id", method |-> "GET", path |-> "/users/{id}"],
      [handler |-> "controller_create_new_user", method |-> "POST", path |-> "/users"],
      [handler |-> "controller_update_user", method |-> "PATCH", path |-> "/users/{id}"] }

\* The registered handlers a request with this method and path is routed to.
Route(method, path) ==
    {h.handler : h \in {r \in HandlerRoutes :
                          r.handler \in Services /\ r.method = method /\ r.path = path}}

\* A response that comes from the framework; no handler and no service function ran.
Unhandled(who, request, status) ==
    /\ op' = who
    /\ arg' = request
    /\ response' = Some(HttpResponse(status, Text("")))
    /\ res' = NotCalled
    /\ dbCalls' = <<>>
    /\ jphCalls' = <<>>
    /\ dbResult' = NotCalled
    /\ jphResult' = NotCalled
    /\ updateDoc' = None
    /\ UNCHANGED <<db, jph, mapOrder, tasks>>

\* No registered handler matches: the default service answers 404.
DefaultService(method, path) ==
    Unhandled("default_service", [method |-> method, path |-> path], NOT_FOUND)

\* The extractor of a `user: web::Data<User>` argument finds no User among the
\* application data: actix-web answers 500 and does not call the handler.
DataExtractorFailed(method, path) ==
    Unhandled("web::Data<User>", [method |-> method, path |-> path], INTERNAL_SERVER_ERROR)

ServeGetRoot ==
    IF "hello" \in Route("GET", "/") THEN Hello ELSE DefaultService("GET", "/")

ServeGetUsers ==
    IF "get_all_users" \in Route("GET", "/users") THEN GetAllUsers
    ELSE DefaultService("GET", "/users")

ServeGetUser ==
    IF "get_user_with_id" \in Route("GET", "/users/{id}") THEN GetUserWithId
    ELSE DefaultService("GET", "/users/{id}")

ServePostUsers ==
    IF "controller_create_new_user" \notin Route("POST", "/users")
    THEN DefaultService("POST", "/users")
    ELSE IF "User" \notin AppData THEN DataExtractorFailed("POST", "/users")
    ELSE ControllerCreateNewUser

ServePatchUser ==
    IF "controller_update_user" \notin Route("PATCH", "/users/{id}")
    THEN DefaultService("PATCH", "/users/{id}")
    ELSE IF "User" \notin AppData THEN DataExtractorFailed("PATCH", "/users/{id}")
    ELSE ControllerUpdateUser

\* A request for which user_controller.rs has no handler.
ServeDeleteUser ==
    /\ Route("DELETE", "/users/{id}") = {}
    /\ DefaultService("DELETE", "/users/{id}")

ServerNext ==
    \/ ServeGetRoot
    \/ ServeGetUsers
    \/ ServeGetUser
    \/ ServePostUsers
    \/ ServePatchUser
    \/ ServeDeleteUser

ServerSpec == Init /\ [][ServerNext]_vars

----------------------------------------------------------------------------
(* The functions of user_client.rs and user.rs on their own: each is       *)
(* applied to inputs of every kind, whatever the service would hand it.    *)

\* The status codes a response can carry.
StatusCodes == {200, 201, 204, 400, 401, 404, 500, 503}

\* The JSON values an "id" field can hold.
JsonIds ==
    {JNull, JBool, JArray, JObject}
        \union {JNumber(n) : n \in {0 - 3, 0, 7, 10, 101, 1234}}
        \union {JString(string) : string \in {"", "7", "102", "abc"}}

\* The bodies of a response: not JSON, or a user whose id is any JSON value.
Bodies == {NotJson} \union {Json(JphUser(id)) : id \in JsonIds}

\* Everything a request of the client can come back with.
AnyReply == {SendError} \union {Response(status, body) : status \in StatusCodes, body \in Bodies}

\* Everything a call of the client can meet: a base url that does not parse, or a
\* request that is sent and comes back with any reply.
AnyExchange ==
    {[urlOk |-> TRUE, reply |-> r] : r \in AnyReply}
        \union {[urlOk |-> FALSE, reply |-> SendError]}

\* The history of a function that touches neither the store nor a handler.
ClientOnly ==
    /\ dbCalls' = <<>>
    /\ dbResult' = NotCalled
    /\ updateDoc' = None
    /\ UNCHANGED <<db, jph, mapOrder, response, tasks>>

ClientGetUser ==
    \E id \in Ids, x \in AnyExchange :
        LET r == get_user_with_url(id, x.urlOk, x.reply) IN
        /\ op' = "get_user_with_url"
        /\ arg' = [id |-> id, urlOk |-> x.urlOk, reply |-> x.reply]
        /\ res' = r.res
        /\ jphCalls' = r.calls
        /\ jphResult' = r.res
        /\ ClientOnly

ClientGetUsers ==
    \E x \in Exchanges(JphGetUsers(jph)) :
        LET r == get_users_with_url(x.urlOk, x.reply) IN
        /\ op' = "get_users_with_url"
        /\ arg' = [urlOk |-> x.urlOk, reply |-> x.reply]
        /\ res' = r.res
        /\ jphCalls' = r.calls
        /\ jphResult' = r.res
        /\ ClientOnly

DeserializeId ==
    \E value \in JsonIds :
        /\ op' = "deserialize_id"
        /\ arg' = value
        /\ res' = deserialize_id(value)
        /\ jphCalls' = <<>>
        /\ jphResult' = NotCalled
        /\ ClientOnly

ClientNext ==
    \/ ClientGetUser
    \/ ClientGetUsers
    \/ DeserializeId

ClientSpec == Init /\ [][ClientNext]_vars

----------------------------------------------------------------------------
(* Calls of the service that run concurrently.  The tokio runtime runs     *)
(* every request as a task of its own; a task gives way at each .await, so *)
(* each driver call of a function is a step of its own and the steps of    *)
(* different tasks interleave.  No function takes a lock.                  *)
(* A task of create_new_user: pc is the driver call it makes next          *)
(* ("count_documents", "insert_one") or "done"; count is the local         *)
(* variable of create_user_to_db_with_config; res is what the call         *)
(* returned once it is done.                                               *)
(* A task of update_user: pc is "find_one", "update_one" or "done";        *)
(* existing_user is the local variable of update_user_in_db_with_config;   *)
(* fetched is the stored document as it was when the call was made.        *)

\* The history of the sequential functions does not move while tasks run.
NoHistory ==
    UNCHANGED <<op, arg, res, dbCalls, jphCalls, dbResult, jphResult, updateDoc, response>>

\* The tasks of create_new_user that have not returned.
Creating ==
    {t \in 1..Len(tasks) : tasks[t].fn = "create_new_user" /\ tasks[t].pc # "done"}

\* create_new_user is called: get_user_collection is set up (connOk) or fails, which
\* the service turns into OperationFailed.
SpawnCreateNewUser ==
    \E user \in NewUsers, connOk \in BOOLEAN :
        /\ Len(tasks) < MaxTasks
        /\ Len(db) + Cardinality(Creating) < MaxDocs
        /\ tasks' = Append(tasks,
                      IF IsErr(get_user_collection(connOk))
                      THEN [fn |-> "create_new_user", user |-> user, pc |-> "done",
                            count |-> 0, res |-> Err(OperationFailed)]
                      ELSE [fn |-> "create_new_user", user |-> user,
                            pc |-> "count_documents", count |-> 0, res |-> NotCalled])
        /\ UNCHANGED <<db, jph, mapOrder>>
        /\ NoHistory

\* get_users_count_with_config(..).await of task t.
CountDocuments(t) ==
    \E run \in Runs(2) :
        LET count == get_users_count_with_config(db, run[1], run[2]) IN
        /\ tasks[t].pc = "count_documents"
        /\ tasks' = [tasks EXCEPT ![t] =
                       IF IsErr(count.res)
                       THEN [@ EXCEPT !.pc = "done", !.res = Err(OperationFailed)]
                       ELSE [@ EXCEPT !.pc = "insert_one", !.count = count.res.val]]
        /\ UNCHANGED <<db, jph, mapOrder>>
        /\ NoHistory

\* collection.insert_one(user, None).await of task t, with the id from its count.
InsertOne(t) ==
    \E insertOk \in BOOLEAN :
        LET user == WithId(tasks[t].user, Some(NewId(tasks[t].count))) IN
        /\ tasks[t].pc = "insert_one"
        /\ db' = IF insertOk THEN insert_one(db, user) ELSE db
        /\ tasks' = [tasks EXCEPT ![t] =
                       [@ EXCEPT !.pc = "done",
                                 !.res = IF insertOk THEN Ok(user) ELSE Err(OperationFailed)]]
        /\ UNCHANGED <<jph, mapOrder>>
        /\ NoHistory

\* The records concurrent updates carry: all for the first identifier of the store.
ConcurrentlyUpdatedUsers == {WithId(u, Some(NewId(0))) : u \in NewUsers}

\* update_user is called: get_user_collection is set up (connOk) or fails.
SpawnUpdateUser ==
    \E user \in ConcurrentlyUpdatedUsers, connOk \in BOOLEAN :
        /\ Len(tasks) < MaxTasks
        /\ tasks' = Append(tasks,
                      IF IsErr(get_user_collection(connOk))
                      THEN [fn |-> "update_user", user |-> user, pc |-> "done",
                            fetched |-> find_one(db, user.id[1]),
                            existing_user |-> NotCalled, res |-> Err(MongoConnectionFailed)]
                      ELSE [fn |-> "update_user", user |-> user, pc |-> "find_one",
                            fetched |-> find_one(db, user.id[1]),
                            existing_user |-> NotCalled, res |-> NotCalled])
        /\ UNCHANGED <<db, jph, mapOrder>>
        /\ NoHistory

\* get_user_from_db_with_config(id, ..).await? of task t.
FindOne(t) ==
    \E run \in Runs(2) :
        LET existing_user ==
                get_user_from_db_with_config(db, tasks[t].user.id[1], run[1], run[2]) IN
        /\ tasks[t].pc = "find_one"
        /\ tasks' = [tasks EXCEPT ![t] =
                       IF IsErr(existing_user.res)
                       THEN [@ EXCEPT !.pc = "done", !.res = existing_user.res]
                       ELSE [@ EXCEPT !.pc = "update_one",
                                      !.existing_user = existing_user.res]]
        /\ UNCHANGED <<db, jph, mapOrder>>
        /\ NoHistory

\* generate_update_document and collection.update_one(..).await of task t.
UpdateOne(t) ==
    \E updateOk \in BOOLEAN :
        LET update == generate_update_document(tasks[t].existing_user.val, tasks[t].user,
                                               mapOrder) IN
        /\ tasks[t].pc = "update_one"
        /\ db' = IF updateOk THEN update_one(db, tasks[t].user.id[1], update) ELSE db
        /\ tasks' = [tasks EXCEPT ![t] =
                       [@ EXCEPT !.pc = "done",
                                 !.res = IF updateOk THEN Ok(<<>>) ELSE Err(OperationFailed)]]
        /\ UNCHANGED <<jph, mapOrder>>
        /\ NoHistory

ConcurrentNext ==
    \/ SpawnCreateNewUser
    \/ \E t \in 1..Len(tasks) : CountDocuments(t)
    \/ \E t \in 1..Len(tasks) : InsertOne(t)
    \/ SpawnUpdateUser
    \/ \E t \in 1..Len(tasks) : FindOne(t)
    \/ \E t \in 1..Len(tasks) : UpdateOne(t)

\* The collection is empty or holds the one document a create_new_user of the test
\* user has left in it.
ConcurrentInit ==
    /\ db \in {<<>>, <<WithId(_create_test_user, Some(NewId(0)))>>}
    /\ jph \in JphContents
    /\ mapOrder \in {"sorted", "declared"}
    /\ op = "start"
    /\ arg = None
    /\ res = Ok(<<>>)
    /\ dbCalls = <<>>
    /\ jphCalls = <<>>
    /\ dbResult = NotCalled
    /\ jphResult = NotCalled
    /\ updateDoc = None
    /\ response = None
    /\ tasks = <<>>

ConcurrentSpec == ConcurrentInit /\ [][ConcurrentNext]_vars

----------------------------------------------------------------------------
(* The claims *)

\* The positions of document i's identifier among the documents of users.
HoldsId(users, id) == \E i \in 1..Len(users) : users[i].id = id

\* The decimal strings of 101, 102, ...
Decimal101 == <<"101", "102", "103", "104", "105">>

\* C1: when both reads of get_users succeed and every directory record carries an
\* identifier, the result is the documents of the store in store order followed by
\* the directory records whose identifier no document has, in directory order; its
\* length is |L| + |{d in D : id(d) not in ids(L)}|, no identifier is in both
\* portions, and a record whose identifier the store holds is the store's document.
C1_ListIsLocalThenMissingDirectory ==
    (/\ op = "get_users"
     /\ IsOk(dbResult)
     /\ IsOk(jphResult)
     /\ \A i \in 1..Len(jphResult.val) : jphResult.val[i].id # None)
    => LET L == dbResult.val
           D == jphResult.val
           keep == {j \in 1..Len(D) : ~HoldsId(L, D[j].id)}
       IN  /\ L = db
           /\ IsOk(res)
           /\ Len(res.val) = Len(L) + Cardinality(keep)
           /\ SubSeq(res.val, 1, Len(L)) = L
           /\ \A k \in (Len(L) + 1)..Len(res.val) :
                /\ ~HoldsId(L, res.val[k].id)
                /\ \E j \in keep :
                     /\ res.val[k] = D[j]
                     /\ Cardinality({m \in keep : m <= j}) = k - Len(L)
           /\ \A k \in 1..Len(res.val) :
                HoldsId(L, res.val[k].id) => (k <= Len(L) /\ res.val[k] = L[k])

\* C1 witness: a listing of two documents and a directory that holds other records
\* under the documents' identifiers and one record more.
C1_Witness ==
    /\ op = "get_users"
    /\ IsOk(dbResult)
    /\ IsOk(jphResult)
    /\ IsOk(res)
    /\ Len(db) = 2
    /\ \E j \in 1..Len(jphResult.val) :
         jphResult.val[j].id = db[1].id /\ jphResult.val[j] # db[1]
    /\ Len(res.val) = 3
    /\ Len(jphResult.val) = 3

\* C2 as claimed: get_user(id) returns the store's document whenever the store
\* holds one for id, and never calls the directory then.
C2_StoreHolderShadowsDirectory ==
    (op = "get_user" /\ Matching(db, arg) # {})
    => (res = Ok(db[FirstMatch(db, arg)]) /\ jphCalls = <<>>)

\* C2 as amended: get_user(id) returns the store's document whenever the read of
\* the store gives one for id, whatever the directory holds, and never calls the
\* directory then.
C2_StoreHitShadowsDirectory ==
    (op = "get_user" /\ IsOk(dbResult))
    => /\ Matching(db, arg) # {}
       /\ dbResult.val = db[FirstMatch(db, arg)]
       /\ res = dbResult
       /\ jphCalls = <<>>
       /\ jphResult = NotCalled

\* C2 witness: a hit in the store for an identifier under which the directory holds
\* another record.
C2_Witness ==
    /\ op = "get_user"
    /\ IsOk(dbResult)
    /\ IsOk(res)
    /\ JphMatching(jph, arg) # {}
    /\ \A j \in JphMatching(jph, arg) : deserialize_user(jph[j]) # Ok(res.val)

\* C3: no two documents of the collection carry the same identifier.
C3_UniqueIds ==
    \A i, j \in 1..Len(db) : db[i].id = db[j].id => i = j

\* The fields in which two users differ.
Differing(original, updated) == {f \in DOMAIN updated : original[f] # updated[f]}

\* C4: after a successful update_user every field of the supplied record that
\* differs from the stored original has the supplied value in the store, and the
\* update document sets all of the differing fields.
C4_AllDifferingFieldsWritten ==
    [][(op' = "update_user" /\ IsOk(res'))
       => LET id == arg'.id[1]
              original == db[FirstMatch(db, id)]
              stored == db'[FirstMatch(db', id)]
          IN  /\ \A f \in Differing(original, arg') : stored[f] = arg'[f]
              /\ DOMAIN SetOf(updateDoc'[1]) = Differing(original, arg')]_vars

\* C5: an update that changes the name alone and resends every other field as it
\* is stored hands update_one the update document {"$set": {"name": <the name>}}.
C5_NameOnlyChangeSet ==
    (/\ op = "update_user"
     /\ updateDoc # None
     /\ arg.name # dbResult.val.name
     /\ arg = [dbResult.val EXCEPT !.name = arg.name])
    => /\ DOMAIN updateDoc[1] = {"$set"}
       /\ DOMAIN updateDoc[1]["$set"] = {"name"}
       /\ updateDoc[1]["$set"]["name"] = arg.name

\* C5 witness: such an update has been written.
C5_Witness ==
    /\ op = "update_user"
    /\ IsOk(res)
    /\ updateDoc # None
    /\ arg.name # dbResult.val.name
    /\ arg = [dbResult.val EXCEPT !.name = arg.name]
    /\ db[FirstMatch(db, arg.id[1])].name = arg.name

\* C6: update_user of a record without identifier fails with NoIdError and calls
\* neither the store nor the directory.
C6_NoIdIsNoIdError ==
    (op = "update_user" /\ arg.id = None)
    => (res = Err(NoIdError) /\ dbCalls = <<>> /\ jphCalls = <<>>)

\* C7 as claimed: update_user for an identifier that no document has fails with
\* UserNotFound and leaves the collection as it is.
C7_UpdateOfAbsentIsUserNotFound ==
    [][(op' = "update_user" /\ arg'.id # None /\ Matching(db, arg'.id[1]) = {})
       => (res' = Err(DbUserNotFound(arg'.id[1])) /\ db' = db)]_vars

\* C7 as amended: update_user for an identifier that no document has fails, with
\* UserNotFound when the connections to the store are set up and with
\* MongoConnectionFailed when one is not, leaves the collection as it is and sends
\* nothing to the directory, whatever the directory holds.
C7_UpdateOfAbsentFails ==
    [][(op' = "update_user" /\ arg'.id # None /\ Matching(db, arg'.id[1]) = {})
       => /\ res' = IF dbCalls' = <<"find_one">>
                    THEN Err(DbUserNotFound(arg'.id[1]))
                    ELSE Err(MongoConnectionFailed)
          /\ dbCalls' \in {<<>>, <<"find_one">>}
          /\ db' = db
          /\ jphCalls' = <<>>]_vars

\* C7 witness: an update was refused with UserNotFound for an identifier that the
\* directory holds and the store does not.
C7_Witness ==
    /\ op = "update_user"
    /\ arg.id # None
    /\ res = Err(DbUserNotFound(arg.id[1]))
    /\ Matching(db, arg.id[1]) = {}
    /\ JphMatching(jph, arg.id[1]) # {}

\* C8: a successful create_new_user(r) followed directly by get_user of the
\* assigned identifier, whose read of the store succeeds, returns r with the
\* assigned identifier.
C8_CreateThenGetRoundTrip ==
    [][(/\ op = "create_new_user"
        /\ IsOk(res)
        /\ op' = "get_user"
        /\ arg' = res.val.id[1]
        /\ IsOk(dbResult'))
       => res' = Ok(WithId(arg, res.val.id))]_vars

\* C9: a successful create_new_user(r) appends one document, r with the decimal
\* string of (number of documents before + 101) as identifier, and returns that
\* document; a create_new_user that does not succeed returns OperationFailed and
\* writes nothing.
C9_CreateAssignsCountPlus101 ==
    [][op' = "create_new_user"
       => IF IsOk(res')
          THEN /\ res'.val = WithId(arg', Some(Decimal101[Len(db) + 1]))
               /\ db' = Append(db, res'.val)
               /\ dbCalls' = <<"count_documents", "insert_one">>
          ELSE /\ res' = Err(OperationFailed)
               /\ db' = db]_vars

\* C9 witness: a second document was created and got "102".
C9_Witness ==
    /\ op = "create_new_user"
    /\ IsOk(res)
    /\ Len(db) = 2
    /\ res.val.id = Some("102")
    /\ db[2] = res.val

C11_ListNeverFailsAndDegrades ==
    op = "get_users"
    => /\ IsOk(res)
       /\ (IsErr(dbResult) /\ IsOk(jphResult)) => res.val = jphResult.val
       /\ (IsOk(dbResult) /\ IsErr(jphResult)) => res.val = dbResult.val
       /\ (IsErr(dbResult) /\ IsErr(jphResult)) => res.val = <<>>

\* The requests that read the directory.
ReadRequests == {"GET /users", "GET /users/{id}"}

\* C12: no function of the service, in any sequence of calls, sends the directory a
\* request that creates, updates or deletes: every request is a GET, and the
\* directory's records stay as they are.
C12_DirectoryIsOnlyRead ==
    [][/\ jph' = jph
       /\ \A i \in 1..Len(jphCalls') : jphCalls'[i] \in ReadRequests]_vars

\* C12 witness: a document whose identifier the directory holds too was updated in
\* the store, and nothing was sent to the directory.
C12_Witness ==
    /\ op = "update_user"
    /\ IsOk(res)
    /\ updateDoc # None
    /\ updateDoc[1] # <<>>
    /\ JphMatching(jph, arg.id[1]) # {}
    /\ jphCalls = <<>>

\* The handlers that call the service, and those of them that take a body.
ServiceHandlers ==
    {"get_all_users", "get_user_with_id", "controller_create_new_user",
     "controller_update_user"}
BodyHandlers == {"controller_create_new_user", "controller_update_user"}

\* The request carries Accept: application/json and, where the handler takes a
\* body, Content-Type: application/json.
CarriesJsonHeaders(handler, req) ==
    /\ req.accept = Some("application/json")
    /\ handler \in BodyHandlers => req.content_type = Some("application/json")

\* C13: a request that carries Accept: application/json (and Content-Type:
\* application/json for create and update) is passed on to the service, and one that
\* lacks such a header is answered with 400 and the service is not called.
C13_JsonHeadersPassOthersGet400 ==
    (/\ op \in ServiceHandlers
     /\ op = "controller_create_new_user" => arg.user.id = None)
    => IF CarriesJsonHeaders(op, arg.req)
       THEN res # NotCalled
       ELSE /\ res = NotCalled
            /\ response # None
            /\ response[1].status = BAD_REQUEST

\* C14: when get_user_with_id, create_new_user or update_user of the controller has
\* called the service, the status of its response is 200 for Ok, 404 for
\* UserNotFound and 500 for every other error.
C14_StatusFollowsOutcome ==
    (/\ op \in {"get_user_with_id", "controller_create_new_user", "controller_update_user"}
     /\ res # NotCalled)
    => /\ response # None
       /\ IsOk(res) \/ IsErr(res)
       /\ IsOk(res) => response[1].status = 200
       /\ (IsErr(res) /\ res.err.kind = "UserNotFound") => response[1].status = 404
       /\ (IsErr(res) /\ res.err.kind # "UserNotFound") => response[1].status = 500

\* C14 witness: get_user_with_id was asked for an identifier that neither the store,
\* which holds a document, nor the directory has, and answered 404.
C14_Witness ==
    /\ op = "get_user_with_id"
    /\ Len(db) > 0
    /\ res = Err(DbUserNotFound(arg.id))
    /\ jphCalls # <<>>
    /\ response # None
    /\ response[1].status = 404

\* C15: a create and an update that succeed both answer 200 with the resulting
\* record of the user as JSON body.
C15_WritesAnswerTheRecord ==
    (op \in BodyHandlers /\ IsOk(res))
    => response =
         Some(HttpResponse(200,
                Json(to_value(IF op = "controller_create_new_user" THEN res.val
                              ELSE db[FirstMatch(db, arg.id)]))))

\* C16: get_user_with_url(id) classifies the response by its status: 200 with a body
\* that decodes gives the record, 404 gives UserNotFound(id) with the identifier
\* asked for, and any other status s gives RestError(s), never UserNotFound.
C16_GetByIdClassifiesByStatus ==
    (op = "get_user_with_url" /\ arg.urlOk /\ arg.reply.sent)
    => LET status == arg.reply.status
           body == arg.reply.body
       IN  /\ (status = 200 /\ body.json
                 /\ body.value.id.t \in {"null", "number", "string"})
                => /\ IsOk(res)
                   /\ res.val = [body.value EXCEPT !.id = res.val.id]
                   /\ Ok(res.val.id) = deserialize_id(body.value.id)
           /\ status = 404 => res = Err(ClientUserNotFound(arg.id))
           /\ status \notin {200, 404} => res = Err(RestError(status))
           /\ (IsErr(res) /\ res.err.kind = "UserNotFound") => status = 404

\* C16 witness: a 404 that carries a user as body was classified as UserNotFound of
\* the identifier asked for.
C16_Witness ==
    /\ op = "get_user_with_url"
    /\ arg.urlOk
    /\ arg.reply.sent
    /\ arg.reply.status = 404
    /\ arg.reply.body.json
    /\ res = Err(ClientUserNotFound(arg.id))
    /\ jphCalls = <<"GET /users/{id}">>

\* The decimal strings of the numbers the identifiers of the model hold.
DecimalOf ==
    (0 - 3) :> "-3" @@ 0 :> "0" @@ 7 :> "7" @@ 10 :> "10" @@ 101 :> "101" @@ 1234 :> "1234"

\* C17: deserialize_id maps JSON null to an absent identifier, a JSON number to its
\* decimal string, a JSON string to itself, and fails for every other JSON type.
C17_DeserializeIdByJsonType ==
    op = "deserialize_id"
    => /\ arg.t = "null" => res = Ok(None)
       /\ arg.t = "number" => res = Ok(Some(DecimalOf[arg.n]))
       /\ arg.t = "string" => res = Ok(Some(arg.s))
       /\ arg.t \notin {"null", "number", "string"} => IsErr(res)

\* C17 witness: the number 1234 was decoded to the string "1234".
C17_Witness ==
    /\ op = "deserialize_id"
    /\ arg = JNumber(1234)
    /\ res = Ok(Some("1234"))

\* C18: update_user writes no field whose value is the same in the stored original
\* and in the supplied record: the update document sets no such field, after the
\* call every such field of the stored document has the value it had before, and
\* no other document is touched.
C18_EqualFieldsAreNotWritten ==
    [][(op' = "update_user" /\ arg'.id # None /\ Matching(db, arg'.id[1]) # {})
       => LET k == FirstMatch(db, arg'.id[1])
              original == db[k]
          IN  /\ Len(db') = Len(db)
              /\ \A f \in DOMAIN original :
                   original[f] = arg'[f] => db'[k][f] = original[f]
              /\ updateDoc' # None
                   => \A f \in DOMAIN SetOf(updateDoc'[1]) : original[f] # arg'[f]
              /\ \A i \in 1..Len(db) : i # k => db'[i] = db[i]]_vars

\* C18 witness: of two documents one was updated with a record that differs from it
\* in the name alone and repeats an address that is not the one of a new user; the
\* name is written and the address stands.
C18_Witness ==
    /\ op = "update_user"
    /\ IsOk(res)
    /\ IsOk(dbResult)
    /\ Len(db) = 2
    /\ updateDoc # None
    /\ DOMAIN SetOf(updateDoc[1]) = {"name"}
    /\ dbResult.val.address = arg.address
    /\ arg.address.geo.lat = "13"
    /\ db[FirstMatch(db, arg.id[1])] = [dbResult.val EXCEPT !.name = arg.name]

\* C19: two calls of create_new_user that run concurrently against the same
\* collection are given different identifiers, however their count and insert steps
\* interleave.
C19_ConcurrentCreatesGetDifferentIds ==
    \A s, t \in 1..Len(tasks) :
        (/\ s # t
         /\ tasks[s].fn = "create_new_user" /\ tasks[s].pc = "done" /\ IsOk(tasks[s].res)
         /\ tasks[t].fn = "create_new_user" /\ tasks[t].pc = "done" /\ IsOk(tasks[t].res))
        => tasks[s].res.val.id # tasks[t].res.val.id

\* C20: in every reachable collection, once remove_user_from_db_with_config(id) has
\* returned Ok, a get_user_from_db_with_config(id) that follows it and reaches the
\* collection fails with UserNotFound(id).
C20_RemovedIsNotFound ==
    [][(/\ op = "remove_user_from_db"
        /\ IsOk(res)
        /\ op' = "get_user"
        /\ arg' = arg
        /\ dbCalls' = <<"find_one">>)
       => dbResult' = Err(DbUserNotFound(arg))]_vars

\* C21: get_user_from_db_with_config(id) fails with UserNotFound(id) only when its
\* query ran and no document matched; a connection that cannot be set up is
\* MongoConnectionFailed and a query that fails is OperationFailed, so get_user and
\* update_user never take a failed read of the store for a missing user.
C21_UserNotFoundOnlyWhenNoneMatches ==
    (/\ op \in {"get_user", "update_user"}
     /\ dbResult # NotCalled)
    => LET id == IF op = "get_user" THEN arg ELSE arg.id[1] IN
       /\ dbCalls = <<>> => dbResult = Err(MongoConnectionFailed)
       /\ dbResult = Err(DbUserNotFound(id))
            => (dbCalls = <<"find_one">> /\ Matching(db, id) = {})
       /\ (IsErr(dbResult) /\ dbCalls # <<>> /\ Matching(db, id) # {})
            => dbResult = Err(OperationFailed)

\* The tasks of update_user that have returned Ok.
Updated ==
    {t \in 1..Len(tasks) :
        tasks[t].fn = "update_user" /\ tasks[t].pc = "done" /\ IsOk(tasks[t].res)}

\* C22: two calls of update_user for the same stored identifier that run
\* concurrently, each with a record that differs from the stored document in one
\* field, not the same one, and repeats all its other fields, leave both changes in
\* the stored document once both have returned, however their reads and writes
\* interleave.
C22_ConcurrentUpdatesBothPresent ==
    \A s, t \in Updated :
        (/\ s # t
         /\ tasks[s].user.id = tasks[t].user.id
         /\ tasks[s].fetched # None
         /\ tasks[s].fetched = tasks[t].fetched
         /\ Cardinality(Differing(tasks[s].fetched[1], tasks[s].user)) = 1
         /\ Cardinality(Differing(tasks[t].fetched[1], tasks[t].user)) = 1
         /\ Differing(tasks[s].fetched[1], tasks[s].user)
              # Differing(tasks[t].fetched[1], tasks[t].user))
        => LET stored == db[FirstMatch(db, tasks[s].user.id[1])] IN
           /\ \A f \in Differing(tasks[s].fetched[1], tasks[s].user) :
                stored[f] = tasks[s].user[f]
           /\ \A f \in Differing(tasks[t].fetched[1], tasks[t].user) :
                stored[f] = tasks[t].user[f]

\* C23: get_users returns a list whatever the store and the directory give it, also
\* when a record of the directory (or of the store) has no identifier: it never
\* aborts.
C23_ListNeverAborts ==
    op = "get_users" => (res # Panic /\ IsOk(res))

\* C24: every handler of user_controller.rs is registered with the server: a request
\* with the method and path of a handler, PATCH /users/{id} among them, is answered
\* by that handler and never by the server's default service.
C24_EveryHandlerIsRouted ==
    op = "default_service"
    => \A h \in HandlerRoutes : ~(h.method = arg.method /\ h.path = arg.path)

====
